---- MODULE Spec2Model ----
(***************************************************************************)
(* pygestalt nodes module (src/nodes.py): the staged, inheritance-aware    *)
(* initialization of a virtual node (_init_ / _recursiveInit_), the port   *)
(* binder (bindPort / addDerivedType) and the reply-flag rendezvous        *)
(* between a blocking outbound action object and its inbound companion.    *)
(*                                                                         *)
(* Python objects with identity (classes created by type(...), Event       *)
(* objects) live in two heaps, `types` and `flags`; an object's identity   *)
(* is its index.  A dict is a set of <<key, value>> pairs written with     *)
(* DictUpdate (dict.update semantics).                                     *)
(***************************************************************************)
EXTENDS Integers, Sequences, FiniteSets, TLC

\* ---------------------------------------------------------------- bounds
NumInstances == 2      \* node instances alive at once
MaxPort == 2           \* callers bind ports 0..MaxPort (0 lies outside [1,254])
MaxBinds == 2          \* direct bindPort calls made by callers in one run
MaxUserLevels == 2     \* user node classes derived above the library's classes
MaxUserBinds == 1      \* bindPort calls made by one user initPorts contribution
MaxCalls == 2          \* outbound action object invocations in one run

Instances == 1..NumInstances
PortChoices == 0..MaxPort

\* ------------------------------------------------------- python values
None == 0              \* Python's None where a class (heap index >= 1) is expected
NoneName == ""         \* None where a name is expected
NoneTemplate == [isNone |-> TRUE, name |-> "", tokens |-> <<>>]

DictKeys(d) == {e[1] : e \in d}
DictGet(d, k) == (CHOOSE e \in d : e[1] = k)[2]
DictUpdate(d, k, v) == {e \in d : e[1] # k} \cup {<<k, v>>}

\* ------------------------------------------------- packets (collaborator)
\* A template is its name and its ordered tokens <<kind, name, width>>.
template(name, tokens) == [isNone |-> FALSE, name |-> name, tokens |-> tokens]
emptyTemplate(name) == [isNone |-> FALSE, name |-> name, tokens |-> <<>>]
IsEmptyTemplate(t) == ~t.isNone /\ t.tokens = <<>>

\* Templates a caller of bindPort supplies.
callerOutboundTemplate == template("callerRequest", <<<<"unsignedInt", "value", 1>>>>)
callerInboundTemplate == template("callerResponse", <<<<"unsignedInt", "code", 1>>>>)

\* ------------------------------------------------------------ type heap
\* A class object: its __name__, its single base (None for a root handler
\* class), and its own __dict__: `has` lists the attributes set on the class
\* itself, the fields hold their values.
NewType(typeName, baseClass) ==
    [name |-> typeName, base |-> baseClass, has |-> {},
     _baseActionObject_ |-> None, _port_ |-> 0, _inboundPacketFlag_ |-> 0,
     _outboundTemplate_ |-> NoneTemplate, _inboundTemplate_ |-> NoneTemplate]

\* Handler classes that exist before any node is bound: the two generic
\* action objects of core, the handler classes gestaltNode.initPorts names,
\* and one caller-defined inbound handler class.
GestaltHandlerNames ==
    <<"statusRequest", "bootCommandRequest", "bootWriteRequest", "bootReadRequest",
      "urlRequest", "setAddressRequest", "identifyRequest", "resetRequest">>
BaseTypeNames ==
    <<"genericOutboundActionObjectBlockOnReply", "genericInboundActionObject">>
    \o GestaltHandlerNames \o <<"customInboundActionObject">>
BaseTypes == [k \in 1..Len(BaseTypeNames) |-> NewType(BaseTypeNames[k], None)]
BaseTypeIds == 1..Len(BaseTypeNames)
TypeNamed(n) == CHOOSE k \in BaseTypeIds : BaseTypeNames[k] = n
genericOutboundActionObjectBlockOnReply == TypeNamed("genericOutboundActionObjectBlockOnReply")
genericInboundActionObject == TypeNamed("genericInboundActionObject")
customInboundActionObject == TypeNamed("customInboundActionObject")
statusRequest == TypeNamed("statusRequest")

\* Class attribute assignment  cls.attr = value.
SetAttr(ty, cls, attr, value) ==
    [ty EXCEPT ![cls] = [[@ EXCEPT !.has = @ \cup {attr}] EXCEPT ![attr] = value]]

\* Class attribute lookup along the base chain: the class that holds attr.
RECURSIVE Owner(_, _, _)
Owner(ty, cls, attr) ==
    IF cls = None THEN None
    ELSE IF attr \in ty[cls].has THEN cls
    ELSE Owner(ty, ty[cls].base, attr)
GetAttr(ty, cls, attr) == ty[Owner(ty, cls, attr)][attr]

RECURSIVE IsSubclass(_, _, _)
IsSubclass(ty, cls, ancestor) ==
    IF cls = None THEN FALSE
    ELSE cls = ancestor \/ IsSubclass(ty, ty[cls].base, ancestor)

\* ---------------------------------------------------------------- state
VARIABLES
    status,               \* per instance: "none", "constructed", "initializing", "initialized", "failed"
    mro,                  \* per instance: self.__class__.mro(), most derived class first
    _initArgs_,           \* per instance: positional arguments stored by __init__
    _initKwargs_,         \* per instance: keyword arguments stored by __init__
    depth,                \* per instance: recursionDepth of the running _recursiveInit_ frame
    pc,                   \* per instance: position of that frame
    hasTables,            \* per instance: the two table attributes exist
    _outboundPortTable_,  \* per instance: dict  action object class -> port
    _inboundPortTable_,   \* per instance: dict  port -> action object class
    dict,                 \* per instance: the class entries of self.__dict__ (name -> class)
    bootPageSize,         \* per instance: {} while the attribute is unset, else {value}
    packetAttrs,          \* per instance: the template entries of self.__dict__ (name -> template)
    log,                  \* per instance: stage contributions started by the current _init_, in order
    initSeen,             \* per instance: <<class, args, kwargs>> of every init contribution run
    raised,               \* per instance: the exception a contribution or bindPort raised last
    caught,               \* per instance: the exception the caller of _init_ / bindPort received
    types,                \* heap of class objects
    flags,                \* heap of flag objects: their kind and whether they are set
    lastBind,             \* the arguments and results of the latest bindPort call
    calls,                \* outbound action object invocations
    wire,                 \* request packets in transit to the devices
    inbox,                \* reply packets in transit to the dispatch context
    signals               \* history of reply-flag signals: <<instance, port, flag>>

nodeVars == <<status, mro, _initArgs_, _initKwargs_, depth, pc, hasTables,
              _outboundPortTable_, _inboundPortTable_, dict, bootPageSize,
              packetAttrs, log, initSeen, raised, caught>>
heapVars == <<types, flags, lastBind>>
replyVars == <<calls, wire, inbox, signals>>
vars == <<nodeVars, heapVars, replyVars>>

NoBind == [seq |-> 0, inst |-> 0, port |-> 0, outboundFunction |-> None,
           outboundTemplate |-> NoneTemplate, inboundFunction |-> None,
           inboundTemplate |-> NoneTemplate, outboundActionObjectClass |-> None,
           inboundActionObjectClass |-> None, inboundPacketFlag |-> 0, exc |-> "none"]

\* The part of the program state one method call on instance i reads and
\* writes, as one value the method bodies below transform.
NodeState(i) ==
    [types |-> types, flags |-> flags, dict |-> dict[i],
     hasTables |-> hasTables[i],
     _outboundPortTable_ |-> _outboundPortTable_[i],
     _inboundPortTable_ |-> _inboundPortTable_[i],
     bootPageSize |-> bootPageSize[i], packetAttrs |-> packetAttrs[i],
     exc |-> "none", ret |-> None, last |-> lastBind]

\* ------------------------------------------------------- addDerivedType
\* A copy of the class is not derived: the base class itself is returned.
addDerivedType_shared(s, baseClass, name) ==
    LET typeName == IF name # NoneName THEN name ELSE s.types[baseClass].name
    IN  [s EXCEPT !.dict = DictUpdate(@, typeName, baseClass), !.ret = baseClass]

addDerivedType(s, baseClass, name) ==
    LET typeName == IF name # NoneName THEN name ELSE s.types[baseClass].name
        newType == Len(s.types) + 1
    IN  [s EXCEPT !.types = Append(@, NewType(typeName, baseClass)),
                  !.dict = DictUpdate(@, typeName, newType),
                  !.ret = newType]

\* ------------------------------------------------------------- bindPort
\* threading.Condition(): a flag that only wakes the calls waiting at the
\* moment it is notified and keeps no state.
NewEvent_condition(s) ==
    [s EXCEPT !.flags = Append(@, [kind |-> "Condition", isSet |-> FALSE]),
              !.ret = Len(s.flags) + 1]

\* threading.Event(): a new flag object, cleared; once set it stays set
\* until it is cleared.
NewEvent(s) ==
    [s EXCEPT !.flags = Append(@, [kind |-> "Event", isSet |-> FALSE]),
              !.ret = Len(s.flags) + 1]

\* One flag per node instance instead of one per bindPort call.
GenerateFlag_perInstance(s) ==
    IF s._inboundPortTable_ = {} THEN NewEvent(s)
    ELSE [s EXCEPT !.ret =
            GetAttr(s.types, (CHOOSE e \in s._inboundPortTable_ : TRUE)[2], "_inboundPacketFlag_")]

\* line 102
GenerateFlag(s) == NewEvent(s)

\* lines 105-112
GenerateOutbound(s, port, outboundFunction) ==
    LET d == IF outboundFunction # None
             THEN addDerivedType(s, outboundFunction, NoneName)
             ELSE addDerivedType(s, genericOutboundActionObjectBlockOnReply,
                                 "outboundActionObjectOnPort" \o ToString(port))
    IN  [d EXCEPT !.types = SetAttr(@, d.ret, "_baseActionObject_",
                    IF outboundFunction # None THEN outboundFunction
                    ELSE genericOutboundActionObjectBlockOnReply)]

\* lines 114-120: both branches store inboundFunction as the base.
GenerateInbound(s, port, inboundFunction) ==
    LET d == IF inboundFunction # None
             THEN addDerivedType(s, inboundFunction, NoneName)
             ELSE addDerivedType(s, genericInboundActionObject,
                                 "inboundActionObjectOnPort" \o ToString(port))
    IN  [d EXCEPT !.types = SetAttr(@, d.ret, "_baseActionObject_", inboundFunction)]

\* An omitted template is stored as it is.
DefaultTemplate_keepNone(given, prefix, port) == given

\* lines 123-129
DefaultTemplate(given, prefix, port) ==
    IF given = NoneTemplate THEN emptyTemplate(prefix \o ToString(port)) ELSE given

\* The flag is stored on the outbound class only.
StoreParameters_flagOnOutbound(ty, out, inb, port, flag, oT, iT) ==
    LET t1 == SetAttr(ty, out, "_port_", port)
        t2 == SetAttr(t1, inb, "_port_", port)
        t3 == SetAttr(t2, out, "_inboundPacketFlag_", flag)
        t5 == SetAttr(t3, out, "_outboundTemplate_", oT)
        t6 == SetAttr(t5, inb, "_outboundTemplate_", oT)
        t7 == SetAttr(t6, out, "_inboundTemplate_", iT)
    IN  SetAttr(t7, inb, "_inboundTemplate_", iT)

\* lines 132-142: the stores happen in source order, outbound class first.
StoreParameters(ty, out, inb, port, flag, oT, iT) ==
    LET t1 == SetAttr(ty, out, "_port_", port)
        t2 == SetAttr(t1, inb, "_port_", port)
        t3 == SetAttr(t2, out, "_inboundPacketFlag_", flag)
        t4 == SetAttr(t3, inb, "_inboundPacketFlag_", flag)
        t5 == SetAttr(t4, out, "_outboundTemplate_", oT)
        t6 == SetAttr(t5, inb, "_outboundTemplate_", oT)
        t7 == SetAttr(t6, out, "_inboundTemplate_", iT)
    IN  SetAttr(t7, inb, "_inboundTemplate_", iT)

\* Both tables are replaced by the new entry instead of updated.
UpdateTables_replace(s, out, inb, port) ==
    IF ~s.hasTables THEN [s EXCEPT !.exc = "AttributeError"]
    ELSE [s EXCEPT !._outboundPortTable_ = {<<out, port>>},
                   !._inboundPortTable_ = {<<port, inb>>}]

\* lines 145-146: reading a table attribute _init_ has not created yet raises.
UpdateTables(s, out, inb, port) ==
    IF ~s.hasTables THEN [s EXCEPT !.exc = "AttributeError"]
    ELSE [s EXCEPT !._outboundPortTable_ = DictUpdate(@, out, port),
                   !._inboundPortTable_ = DictUpdate(@, port, inb)]

bindPort(s, i, port, outboundFunction, outboundTemplate, inboundFunction, inboundTemplate) ==
    LET f == GenerateFlag(s)
        inboundPacketFlag == f.ret
        o == GenerateOutbound(f, port, outboundFunction)
        outboundActionObjectClass == o.ret
        n == GenerateInbound(o, port, inboundFunction)
        inboundActionObjectClass == n.ret
        oT == DefaultTemplate(outboundTemplate, "outboundTemplateOnPort", port)
        iT == DefaultTemplate(inboundTemplate, "inboundTemplateOnPort", port)
        p == [n EXCEPT !.types = StoreParameters(@, outboundActionObjectClass,
                                    inboundActionObjectClass, port, inboundPacketFlag, oT, iT)]
        u == UpdateTables(p, outboundActionObjectClass, inboundActionObjectClass, port)
    IN  [u EXCEPT !.ret = None,
                  !.last = [seq |-> s.last.seq + 1, inst |-> i, port |-> port,
                            outboundFunction |-> outboundFunction,
                            outboundTemplate |-> outboundTemplate,
                            inboundFunction |-> inboundFunction,
                            inboundTemplate |-> inboundTemplate,
                            outboundActionObjectClass |-> outboundActionObjectClass,
                            inboundActionObjectClass |-> inboundActionObjectClass,
                            inboundPacketFlag |-> inboundPacketFlag,
                            exc |-> u.exc]]

\* Writes the state a method call left behind back to instance i.
Commit(i, s) ==
    /\ types' = s.types
    /\ flags' = s.flags
    /\ lastBind' = s.last
    /\ dict' = [dict EXCEPT ![i] = s.dict]
    /\ _outboundPortTable_' = [_outboundPortTable_ EXCEPT ![i] = s._outboundPortTable_]
    /\ _inboundPortTable_' = [_inboundPortTable_ EXCEPT ![i] = s._inboundPortTable_]
    /\ bootPageSize' = [bootPageSize EXCEPT ![i] = s.bootPageSize]
    /\ packetAttrs' = [packetAttrs EXCEPT ![i] = s.packetAttrs]

\* --------------------------------------------------------- node classes
StageOrder_portsFirst == <<"initPorts", "init", "initPackets", "onLoad">>
StageOrder_packetsLast == <<"init", "initPorts", "initPackets", "onLoad">>

\* lines 45-48: the order of the four dispatch statements.
StageOrder == <<"init", "initPackets", "initPorts", "onLoad">>
Stages == {"init", "initPackets", "initPorts", "onLoad"}

\* A node class: its name, the stage methods its own __dict__ defines, the
\* handler classes it defines as class attributes, and the _recursiveInit_
\* it resolves to.
GestaltHandlerAttrs == {<<GestaltHandlerNames[k], TypeNamed(GestaltHandlerNames[k])>> :
                            k \in 1..Len(GestaltHandlerNames)}
objectClass ==
    [name |-> "object", defines |-> {}, attrs |-> {}, recursiveInit |-> "absent"]
\* The root class recurses to its parent like every other level.
baseVirtualNode_recursive ==
    [name |-> "baseVirtualNode", defines |-> {}, attrs |-> {}, recursiveInit |-> "recursive"]
baseVirtualNode ==
    [name |-> "baseVirtualNode", defines |-> {}, attrs |-> {}, recursiveInit |-> "dummy"]
baseGestaltNode ==
    [name |-> "baseGestaltNode", defines |-> Stages, attrs |-> {}, recursiveInit |-> "recursive"]
gestaltNode ==
    [name |-> "gestaltNode", defines |-> {"init", "initPackets", "initPorts"},
     attrs |-> {}, recursiveInit |-> "recursive"]
\* gestaltNode together with the handler classes its initPorts names, which
\* the class body defines as class attributes.
gestaltNodeWithHandlers == [gestaltNode EXCEPT !.attrs = GestaltHandlerAttrs]
UserClass(k, defines, attrs) ==
    [name |-> "userNode" \o ToString(k), defines |-> defines, attrs |-> attrs,
     recursiveInit |-> "recursive"]

LibraryBases == {<<baseGestaltNode>>, <<gestaltNode, baseGestaltNode>>}

\* self.__class__.mro() of a chain of n user classes above a library class;
\* userDefines[1] belongs to the most derived class, user class k sits k
\* levels above the library class; `handlers` tells whether gestaltNode
\* carries its handler classes.
MroOf(userDefines, handlers, base) ==
    LET n == Len(userDefines)
    IN  [d \in 1..n |-> UserClass(n + 1 - d, userDefines[d], {})]
        \o [d \in 1..Len(base) |->
                IF handlers /\ base[d].name = "gestaltNode"
                THEN gestaltNodeWithHandlers ELSE base[d]]
        \o <<baseVirtualNode, objectClass>>

UserDefineChoices == UNION {[1..n -> SUBSET Stages] : n \in 0..MaxUserLevels}
ArgChoices == {[args |-> <<>>, kwargs |-> {}],
               [args |-> <<"a">>, kwargs |-> {}],
               [args |-> <<>>, kwargs |-> {<<"k", "v">>}]}

IsUserClass(cls) == cls.name \notin {"object", "baseVirtualNode", "baseGestaltNode", "gestaltNode"}
\* Depth of the class in the mro (0 = most derived), as recursionDepth counts.
DepthOf(m, name) == (CHOOSE d \in 1..Len(m) : m[d].name = name) - 1

\* ---------------------------------------------------- baseVirtualNode
\* lines 14-22: the arguments are stored for _init_.
Construct(i) ==
    /\ status[i] = "none"
    /\ \E u \in UserDefineChoices, base \in LibraryBases, h \in BOOLEAN, a \in ArgChoices :
        /\ h => base[1].name = "gestaltNode"
        /\ mro' = [mro EXCEPT ![i] = MroOf(u, h, base)]
        /\ _initArgs_' = [_initArgs_ EXCEPT ![i] = a.args]
        /\ _initKwargs_' = [_initKwargs_ EXCEPT ![i] = a.kwargs]
    /\ status' = [status EXCEPT ![i] = "constructed"]
    /\ UNCHANGED <<depth, pc, hasTables, _outboundPortTable_, _inboundPortTable_, dict,
                   bootPageSize, packetAttrs, log, initSeen, raised, caught>>
    /\ UNCHANGED <<heapVars, replyVars>>

\* ----------------------------------------------------- baseGestaltNode
\* lines 61-64: both tables are created empty, then the recursion starts at
\* depth 0.  The caller (the node shell) runs _init_ once on a constructed node.
_init_(i) ==
    /\ status[i] = "constructed"
    /\ status' = [status EXCEPT ![i] = "initializing"]
    /\ hasTables' = [hasTables EXCEPT ![i] = TRUE]
    /\ _outboundPortTable_' = [_outboundPortTable_ EXCEPT ![i] = {}]
    /\ _inboundPortTable_' = [_inboundPortTable_ EXCEPT ![i] = {}]
    /\ depth' = [depth EXCEPT ![i] = 0]
    /\ pc' = [pc EXCEPT ![i] = "recurse"]
    /\ log' = [log EXCEPT ![i] = <<>>]
    /\ UNCHANGED <<mro, _initArgs_, _initKwargs_, dict, bootPageSize, packetAttrs,
                   initSeen, raised, caught>>
    /\ UNCHANGED <<heapVars, replyVars>>

\* lines 42-44: the frame at recursionDepth calls the _recursiveInit_ of
\* mro()[recursionDepth + 1] with recursionDepth + 1.
_recursiveInit_(i) ==
    /\ status[i] = "initializing"
    /\ pc[i] = "recurse"
    /\ mro[i][depth[i] + 1].recursiveInit = "recursive"
    /\ depth' = [depth EXCEPT ![i] = depth[i] + 1]
    /\ UNCHANGED <<status, mro, _initArgs_, _initKwargs_, pc, hasTables,
                   _outboundPortTable_, _inboundPortTable_, dict, bootPageSize,
                   packetAttrs, log, initSeen, raised, caught>>
    /\ UNCHANGED <<heapVars, replyVars>>

\* lines 24-26: the root's dummy returns at once; its caller goes on to line 45.
baseVirtualNode_recursiveInit_(i) ==
    /\ status[i] = "initializing"
    /\ pc[i] = "recurse"
    /\ mro[i][depth[i] + 1].recursiveInit = "dummy"
    /\ depth' = [depth EXCEPT ![i] = depth[i] - 1]
    /\ pc' = [pc EXCEPT ![i] = StageOrder[1]]
    /\ UNCHANGED <<status, mro, _initArgs_, _initKwargs_, hasTables,
                   _outboundPortTable_, _inboundPortTable_, dict, bootPageSize,
                   packetAttrs, log, initSeen, raised, caught>>
    /\ UNCHANGED <<heapVars, replyVars>>

\* ------------------------------------------------ stage contributions
\* self.<name>: the instance __dict__ first, then the classes of the mro.
LookupHandler(s, m, name) ==
    IF name \in DictKeys(s.dict) THEN DictGet(s.dict, name)
    ELSE IF \E d \in 1..Len(m) : name \in DictKeys(m[d].attrs)
    THEN LET d == CHOOSE d \in 1..Len(m) :
                    /\ name \in DictKeys(m[d].attrs)
                    /\ \A e \in 1..(d - 1) : name \notin DictKeys(m[e].attrs)
         IN  DictGet(m[d].attrs, name)
    ELSE None

\* lines 189-191: gestaltNode.init takes no argument besides self.
gestaltNode_init(s, args, kwargs) ==
    IF args # <<>> \/ kwargs # {} THEN [s EXCEPT !.exc = "TypeError"]
    ELSE [s EXCEPT !.bootPageSize = {128}]

\* lines 193-233
gestaltNode_initPackets(s) ==
    IF s.bootPageSize = {} THEN [s EXCEPT !.exc = "AttributeError"]
    ELSE LET size == CHOOSE v \in s.bootPageSize : TRUE
             P(name, tokens) == <<name \o "Packet", template(name, tokens)>>
         IN [s EXCEPT !.packetAttrs = {
              P("statusResponse", <<<<"pString", "status", 1>>, <<"unsignedInt", "appValidity", 1>>>>),
              P("bootCommandRequest", <<<<"unsignedInt", "commandCode", 1>>>>),
              P("bootCommandResponse", <<<<"unsignedInt", "responseCode", 1>>,
                                         <<"unsignedInt", "pageNumber", 2>>>>),
              P("bootWriteRequest", <<<<"unsignedInt", "commandCode", 1>>,
                                      <<"unsignedInt", "pageNumber", 2>>,
                                      <<"pList", "writeData", size>>>>),
              P("bootWriteResponse", <<<<"unsignedInt", "responseCode", 1>>,
                                       <<"unsignedInt", "pageNumber", 2>>>>),
              P("bootReadRequest", <<<<"unsignedInt", "pageNumber", 2>>>>),
              P("bootReadResponse", <<<<"pList", "readData", size>>>>),
              P("urlResponse", <<<<"pString", "URL", 0>>>>),
              P("setAddressRequest", <<<<"pList", "setAddress", 2>>>>),
              P("setAddressResponse", <<<<"pString", "URL", 0>>>>)}]

\* Port 5 passes its response packet as the outbound template.
GestaltPorts_urlOutbound ==
    <<[port |-> 1, outboundFunction |-> "statusRequest", outboundTemplate |-> "",
       inboundTemplate |-> "statusResponsePacket"],
      [port |-> 2, outboundFunction |-> "bootCommandRequest",
       outboundTemplate |-> "bootCommandRequestPacket",
       inboundTemplate |-> "bootCommandResponsePacket"],
      [port |-> 3, outboundFunction |-> "bootWriteRequest",
       outboundTemplate |-> "bootWriteRequestPacket",
       inboundTemplate |-> "bootWriteResponsePacket"],
      [port |-> 4, outboundFunction |-> "bootReadRequest",
       outboundTemplate |-> "bootReadRequestPacket",
       inboundTemplate |-> "bootReadResponsePacket"],
      [port |-> 5, outboundFunction |-> "urlRequest", outboundTemplate |-> "urlResponsePacket",
       inboundTemplate |-> ""],
      [port |-> 6, outboundFunction |-> "setAddressRequest",
       outboundTemplate |-> "setAddressRequestPacket",
       inboundTemplate |-> "setAddressResponsePacket"],
      [port |-> 7, outboundFunction |-> "identifyRequest", outboundTemplate |-> "",
       inboundTemplate |-> ""],
      [port |-> 255, outboundFunction |-> "resetRequest", outboundTemplate |-> "",
       inboundTemplate |-> ""]>>

\* lines 239-264: the eight bindPort calls; "" is an argument left out.
GestaltPorts ==
    <<[port |-> 1, outboundFunction |-> "statusRequest", outboundTemplate |-> "",
       inboundTemplate |-> "statusResponsePacket"],
      [port |-> 2, outboundFunction |-> "bootCommandRequest",
       outboundTemplate |-> "bootCommandRequestPacket",
       inboundTemplate |-> "bootCommandResponsePacket"],
      [port |-> 3, outboundFunction |-> "bootWriteRequest",
       outboundTemplate |-> "bootWriteRequestPacket",
       inboundTemplate |-> "bootWriteResponsePacket"],
      [port |-> 4, outboundFunction |-> "bootReadRequest",
       outboundTemplate |-> "bootReadRequestPacket",
       inboundTemplate |-> "bootReadResponsePacket"],
      [port |-> 5, outboundFunction |-> "urlRequest", outboundTemplate |-> "",
       inboundTemplate |-> "urlResponsePacket"],
      [port |-> 6, outboundFunction |-> "setAddressRequest",
       outboundTemplate |-> "setAddressRequestPacket",
       inboundTemplate |-> "setAddressResponsePacket"],
      [port |-> 7, outboundFunction |-> "identifyRequest", outboundTemplate |-> "",
       inboundTemplate |-> ""],
      [port |-> 255, outboundFunction |-> "resetRequest", outboundTemplate |-> "",
       inboundTemplate |-> ""]>>

\* self.<name>Packet, or None for an argument left out; Missing when unset.
MissingTemplate == [isNone |-> TRUE, name |-> "AttributeError", tokens |-> <<>>]
LookupPacket(s, name) ==
    IF name = "" THEN NoneTemplate
    ELSE IF name \in DictKeys(s.packetAttrs) THEN DictGet(s.packetAttrs, name)
    ELSE MissingTemplate

\* The bindPort calls from the k-th on; the arguments of a call are evaluated
\* left to right and an attribute that does not resolve raises AttributeError.
RECURSIVE gestaltNode_initPortsFrom(_, _, _, _)
gestaltNode_initPortsFrom(s, i, m, k) ==
    IF k > Len(GestaltPorts) \/ s.exc # "none" THEN s
    ELSE LET e == GestaltPorts[k]
             f == LookupHandler(s, m, e.outboundFunction)
             oT == LookupPacket(s, e.outboundTemplate)
             iT == LookupPacket(s, e.inboundTemplate)
         IN  IF f = None \/ oT = MissingTemplate \/ iT = MissingTemplate
             THEN [s EXCEPT !.exc = "AttributeError"]
             ELSE gestaltNode_initPortsFrom(bindPort(s, i, e.port, f, oT, None, iT), i, m, k + 1)

gestaltNode_initPorts(s, i, m) == gestaltNode_initPortsFrom(s, i, m, 1)

\* A user class's contribution: an initPorts binds some ports with generated
\* handlers and templates; any contribution may raise.
UserBindSeqs == UNION {[1..n -> 1..MaxPort] : n \in 0..MaxUserBinds}
RECURSIVE userBinds(_, _, _)
userBinds(s, i, ports) ==
    IF ports = <<>> \/ s.exc # "none" THEN s
    ELSE userBinds(bindPort(s, i, Head(ports), None, NoneTemplate, None, NoneTemplate),
                   i, Tail(ports))

Choices(cls, stage) ==
    IF ~IsUserClass(cls) THEN {[binds |-> <<>>, raises |-> FALSE]}
    ELSE IF stage = "initPorts"
    THEN {[binds |-> b, raises |-> r] : b \in UserBindSeqs, r \in BOOLEAN}
    ELSE {[binds |-> <<>>, raises |-> r] : r \in BOOLEAN}

\* The body of the stage method class cls defines, run on instance i.
Contribution(s, i, cls, stage, c) ==
    IF cls.name = "gestaltNode"
    THEN CASE stage = "init" -> gestaltNode_init(s, _initArgs_[i], _initKwargs_[i])
           [] stage = "initPackets" -> gestaltNode_initPackets(s)
           [] stage = "initPorts" -> gestaltNode_initPorts(s, i, mro[i])
           [] OTHER -> s
    ELSE IF IsUserClass(cls)
    THEN LET b == userBinds(s, i, c.binds)
         IN  IF c.raises /\ b.exc = "none" THEN [b EXCEPT !.exc = "UserError"] ELSE b
    ELSE s    \* lines 66-86: the contributions of baseGestaltNode are empty

\* --------------------------------------------------- stage dispatching
\* hasattr(baseClass, stage): an inherited stage method is found too and
\* resolves to the nearest class of the mro that defines it.
Dispatch_inherited(m, d, stage) ==
    IF \E r \in (d + 1)..Len(m) : stage \in m[r].defines
    THEN CHOOSE r \in (d + 1)..Len(m) :
            /\ stage \in m[r].defines
            /\ \A q \in (d + 1)..(r - 1) : stage \notin m[q].defines
    ELSE 0

\* lines 45-48: `stage in baseClass.__dict__` with baseClass = mro()[recursionDepth].
\* The position in the mro of the class whose method runs, 0 when none does.
Dispatch(m, d, stage) == IF stage \in m[d + 1].defines THEN d + 1 ELSE 0

\* lines 64, 44, 45: *args, **kwargs reach every frame as _init_ passed them.
PassedArgs(i, d) == <<_initArgs_[i], _initKwargs_[i]>>

\* The tables are emptied when a contribution raised.
Propagate_rollback(s) ==
    [s EXCEPT !._outboundPortTable_ = {}, !._inboundPortTable_ = {}]

\* lines 42-48, 61-64: no frame of _recursiveInit_ or _init_ holds a handler;
\* the exception and the state leave _init_ as the contribution left them.
Propagate(s) == s

StageIndex(stage) == CHOOSE k \in 1..Len(StageOrder) : StageOrder[k] = stage

\* The frame goes on to its next dispatch statement; after the last one it
\* returns: to the frame of the derived class, or from _init_ at depth 0.
Advance(i, stage) ==
    LET k == StageIndex(stage)
    IN  IF k < Len(StageOrder)
        THEN /\ pc' = [pc EXCEPT ![i] = StageOrder[k + 1]]
             /\ UNCHANGED <<depth, status>>
        ELSE IF depth[i] = 0
        THEN /\ pc' = [pc EXCEPT ![i] = "idle"]
             /\ status' = [status EXCEPT ![i] = "initialized"]
             /\ UNCHANGED depth
        ELSE /\ pc' = [pc EXCEPT ![i] = StageOrder[1]]
             /\ depth' = [depth EXCEPT ![i] = depth[i] - 1]
             /\ UNCHANGED status

RunStage(i, stage) ==
    /\ status[i] = "initializing"
    /\ pc[i] = stage
    /\ LET m == mro[i]
           r == Dispatch(m, depth[i], stage)
       IN  IF r = 0
           THEN /\ Advance(i, stage)
                /\ UNCHANGED <<hasTables, _outboundPortTable_, _inboundPortTable_, dict,
                               bootPageSize, packetAttrs, log, initSeen, raised, caught>>
                /\ UNCHANGED heapVars
           ELSE \E c \in Choices(m[r], stage) :
                LET ran == Contribution(NodeState(i), i, m[r], stage, c)
                    s == IF ran.exc = "none" THEN ran ELSE Propagate(ran)
                IN  /\ Commit(i, s)
                    /\ log' = [log EXCEPT ![i] =
                            Append(@, [level |-> m[depth[i] + 1].name, cls |-> m[r].name,
                                       stage |-> stage])]
                    /\ initSeen' = [initSeen EXCEPT ![i] =
                            IF stage = "init"
                            THEN Append(@, <<m[r].name>> \o PassedArgs(i, depth[i]))
                            ELSE @]
                    /\ IF s.exc = "none"
                       THEN Advance(i, stage) /\ UNCHANGED <<raised, caught>>
                       ELSE /\ status' = [status EXCEPT ![i] = "failed"]
                            /\ pc' = [pc EXCEPT ![i] = "idle"]
                            /\ depth' = [depth EXCEPT ![i] = 0]
                            /\ raised' = [raised EXCEPT ![i] = ran.exc]
                            /\ caught' = [caught EXCEPT ![i] = s.exc]
                    /\ UNCHANGED hasTables
    /\ UNCHANGED <<mro, _initArgs_, _initKwargs_>>
    /\ UNCHANGED replyVars

runInit(i) == RunStage(i, "init")                 \* line 45
runInitPackets(i) == RunStage(i, "initPackets")   \* line 46
runInitPorts(i) == RunStage(i, "initPorts")       \* line 47
runOnLoad(i) == RunStage(i, "onLoad")             \* line 48

\* ------------------------------------------------- bindPort, called directly
\* bindPort is a public method without a guard: a caller may bind a port of
\* an initialized node at any time.
OutboundFunctionChoices == {None, statusRequest}
InboundFunctionChoices == {None, customInboundActionObject}
OutboundTemplateChoices == {NoneTemplate, callerOutboundTemplate}
InboundTemplateChoices == {NoneTemplate, callerInboundTemplate}

bindPortWith(i, ports, oFs, oTs, iFs, iTs) ==
    /\ status[i] = "initialized"
    /\ lastBind.seq < MaxBinds
    /\ \E port \in ports, oF \in oFs, oT \in oTs, iF \in iFs, iT \in iTs :
        LET s == bindPort(NodeState(i), i, port, oF, oT, iF, iT)
        IN  /\ Commit(i, s)
            /\ raised' = [raised EXCEPT ![i] = IF s.exc = "none" THEN @ ELSE s.exc]
            /\ caught' = [caught EXCEPT ![i] = IF s.exc = "none" THEN @ ELSE s.exc]
    /\ UNCHANGED <<status, mro, _initArgs_, _initKwargs_, depth, pc, hasTables, log, initSeen>>
    /\ UNCHANGED replyVars

\* Any port, any combination of supplied and omitted arguments.
bindPortCall(i) ==
    bindPortWith(i, PortChoices, OutboundFunctionChoices, OutboundTemplateChoices,
                 InboundFunctionChoices, InboundTemplateChoices)

\* bindPort(port): both handlers and both templates are generated.
bindPortDefaults(i) ==
    bindPortWith(i, 1..MaxPort, {None}, {NoneTemplate}, {None}, {NoneTemplate})

\* ------------------------------------- request / reply (core, transport)
\* The two generic action objects and the transport are collaborators of
\* nodes.py; their behaviour is the one the binder relies on: the blocking
\* outbound action object transmits on its class's _port_, waits on its
\* class's _inboundPacketFlag_ and returns; the transport routes a packet
\* that arrives for a port to the class _inboundPortTable_ holds for it; the
\* generic inbound action object decodes and sets its class's flag.
IsBlockingOutbound(cls) == IsSubclass(types, cls, genericOutboundActionObjectBlockOnReply)
IsGenericInbound(cls) == IsSubclass(types, cls, genericInboundActionObject)

\* The calling context invokes an outbound action object class of node i:
\* the request is transmitted; the call has not begun to wait yet.
invoke(i) ==
    /\ Len(calls) < MaxCalls
    /\ \E e \in _outboundPortTable_[i] :
        /\ IsBlockingOutbound(e[1])
        /\ calls' = Append(calls, [inst |-> i, cls |-> e[1],
                                   port |-> GetAttr(types, e[1], "_port_"),
                                   state |-> "transmitted", early |-> FALSE])
        /\ wire' = wire \cup {<<i, GetAttr(types, e[1], "_port_"), Len(calls) + 1>>}
    /\ UNCHANGED <<nodeVars, heapVars, inbox, signals>>

\* The call begins to wait on the flag of its class; `early` records that
\* the flag had been signalled by then.
beginWait ==
    /\ \E k \in 1..Len(calls) :
        /\ calls[k].state = "transmitted"
        /\ calls' = [calls EXCEPT ![k].state = "waiting",
                                  ![k].early = \E g \in signals :
                                        g[3] = GetAttr(types, calls[k].cls, "_inboundPacketFlag_")]
    /\ UNCHANGED <<nodeVars, heapVars, wire, inbox, signals>>

\* The device answers a request on the port it arrived on.
deviceReply ==
    /\ \E m \in wire :
        /\ wire' = wire \ {m}
        /\ inbox' = inbox \cup {m}
    /\ UNCHANGED <<nodeVars, heapVars, calls, signals>>

\* The flag of a class.
FlagOf(cls) == GetAttr(types, cls, "_inboundPacketFlag_")

\* The dispatch context routes a packet for port p of node i to the inbound
\* class bound to p; the generic inbound action object signals its flag.  An
\* Event becomes set; a Condition releases the calls that wait on it now.
dispatchInbound ==
    /\ \E m \in inbox :
        LET i == m[1]
            p == m[2]
            bound == p \in DictKeys(_inboundPortTable_[i])
            h == DictGet(_inboundPortTable_[i], p)
        IN  /\ inbox' = inbox \ {m}
            /\ IF bound /\ IsGenericInbound(h)
               THEN LET f == FlagOf(h)
                    IN  /\ signals' = signals \cup {<<i, p, f>>}
                        /\ IF flags[f].kind = "Event"
                           THEN /\ flags' = [flags EXCEPT ![f].isSet = TRUE]
                                /\ UNCHANGED calls
                           ELSE /\ calls' = [k \in 1..Len(calls) |->
                                        IF calls[k].state = "waiting" /\ FlagOf(calls[k].cls) = f
                                        THEN [calls[k] EXCEPT !.state = "returned"]
                                        ELSE calls[k]]
                                /\ UNCHANGED flags
               ELSE UNCHANGED <<flags, signals, calls>>
    /\ UNCHANGED <<nodeVars, types, lastBind, wire>>

\* A waiting call returns once the flag of its class is set.  Neither action
\* object clears the flag: resetting it is left to the caller.
outboundReturn ==
    /\ \E k \in 1..Len(calls) :
        /\ calls[k].state = "waiting"
        /\ flags[FlagOf(calls[k].cls)].isSet
        /\ calls' = [calls EXCEPT ![k].state = "returned"]
    /\ UNCHANGED <<nodeVars, heapVars, wire, inbox, signals>>

\* ------------------------------------------------------ specifications
\* The state _init_ leaves a node of class baseGestaltNode in: all four
\* (empty) contributions of baseGestaltNode have run, both tables are empty.
PlainMro == MroOf(<<>>, FALSE, <<baseGestaltNode>>)
PlainLog ==
    [k \in 1..4 |-> [level |-> "baseGestaltNode", cls |-> "baseGestaltNode",
                     stage |-> <<"init", "initPackets", "initPorts", "onLoad">>[k]]]

InitNodes(fresh) ==
    /\ status = [i \in Instances |-> IF i \in fresh THEN "none" ELSE "initialized"]
    /\ mro = [i \in Instances |-> IF i \in fresh THEN <<>> ELSE PlainMro]
    /\ _initArgs_ = [i \in Instances |-> <<>>]
    /\ _initKwargs_ = [i \in Instances |-> {}]
    /\ depth = [i \in Instances |-> 0]
    /\ pc = [i \in Instances |-> "idle"]
    /\ hasTables = [i \in Instances |-> i \notin fresh]
    /\ _outboundPortTable_ = [i \in Instances |-> {}]
    /\ _inboundPortTable_ = [i \in Instances |-> {}]
    /\ dict = [i \in Instances |-> {}]
    /\ bootPageSize = [i \in Instances |-> {}]
    /\ packetAttrs = [i \in Instances |-> {}]
    /\ log = [i \in Instances |-> IF i \in fresh THEN <<>> ELSE PlainLog]
    /\ initSeen = [i \in Instances |-> IF i \in fresh THEN <<>>
                                        ELSE <<<<"baseGestaltNode", <<>>, {}>>>>]
    /\ raised = [i \in Instances |-> "none"]
    /\ caught = [i \in Instances |-> "none"]
    /\ types = BaseTypes
    /\ flags = <<>>
    /\ lastBind = NoBind
    /\ calls = <<>>
    /\ wire = {}
    /\ inbox = {}
    /\ signals = {}

\* One node is created and initialized; the other nodes are initialized already.
Init == InitNodes({1})

Next ==
    \/ \E i \in Instances : Construct(i)
    \/ \E i \in Instances : _init_(i)
    \/ \E i \in Instances : _recursiveInit_(i)
    \/ \E i \in Instances : baseVirtualNode_recursiveInit_(i)
    \/ \E i \in Instances : runInit(i)
    \/ \E i \in Instances : runInitPackets(i)
    \/ \E i \in Instances : runInitPorts(i)
    \/ \E i \in Instances : runOnLoad(i)

Spec == Init /\ [][Next]_vars

\* Callers bind ports of initialized nodes.
InitBind == InitNodes({})
NextBind == \E i \in Instances : bindPortCall(i)
SpecBind == InitBind /\ [][NextBind]_vars

\* Ports are bound with generated handlers; requests and replies are exchanged.
InitReply == InitNodes({})
NextReply ==
    \/ \E i \in Instances : bindPortDefaults(i)
    \/ \E i \in Instances : invoke(i)
    \/ beginWait
    \/ deviceReply
    \/ dispatchInbound
    \/ outboundReturn
SpecReply == InitReply /\ [][NextReply]_vars

\* The calling context and the dispatch context both keep running: a call
\* that can begin to wait does, a call whose flag is set returns.
SpecReplyFair ==
    InitReply /\ [][NextReply]_vars /\ WF_vars(beginWait) /\ WF_vars(outboundReturn)

\* ================================================================ claims
LogLevels(i) == {log[i][k].level : k \in 1..Len(log[i])}
LogRan(i) == {<<log[i][k].cls, log[i][k].stage>> : k \in 1..Len(log[i])}
Defined(m) == UNION {{<<m[d].name, st>> : st \in m[d].defines} : d \in 1..Len(m)}
\* The order of the stages within a level, as the claim states it.
StageRank(stage) ==
    CASE stage = "init" -> 1 [] stage = "initPackets" -> 2
      [] stage = "initPorts" -> 3 [] stage = "onLoad" -> 4

\* C1: within one _init_ call the stage contributions run level by level,
\* from the most-base level to the most-derived one (every contribution of a
\* level before any contribution of a more-derived level), and within a
\* level in the order init, initPackets, initPorts, onLoad.
C1_LevelAndStageOrder ==
    \A i \in Instances : \A a, b \in 1..Len(log[i]) :
        a < b =>
            \/ DepthOf(mro[i], log[i][a].level) > DepthOf(mro[i], log[i][b].level)
            \/ /\ log[i][a].level = log[i][b].level
               /\ StageRank(log[i][a].stage) < StageRank(log[i][b].stage)

\* An _init_ that returned after running contributions of at least three
\* levels, one of them a user level with several stages.
C1_Witness ==
    /\ status[1] = "initialized"
    /\ Cardinality(LogLevels(1)) >= 3
    /\ \E a, b \in 1..Len(log[1]) :
        /\ a < b
        /\ log[1][a].level = log[1][b].level
        /\ log[1][a].level \notin {"baseGestaltNode", "gestaltNode"}

\* C2: a contribution runs at a level exactly when that level defines the
\* stage itself: what runs is the level's own method, nothing runs twice,
\* and when _init_ returns every defined contribution has run.
C2_DefinedOnlyOnce ==
    \A i \in Instances :
        /\ \A k \in 1..Len(log[i]) :
            /\ log[i][k].cls = log[i][k].level
            /\ <<log[i][k].cls, log[i][k].stage>> \in Defined(mro[i])
        /\ \A a, b \in 1..Len(log[i]) :
            a # b => <<log[i][a].cls, log[i][a].stage>> # <<log[i][b].cls, log[i][b].stage>>
        /\ status[i] = "initialized" => LogRan(i) = Defined(mro[i])

\* An _init_ that returned for a class chain in which one user level defines
\* a stage and another user level only inherits it.
C2_Witness ==
    /\ status[1] = "initialized"
    /\ \E d, e \in 1..Len(mro[1]) : \E st \in Stages :
        /\ IsUserClass(mro[1][d]) /\ IsUserClass(mro[1][e])
        /\ st \in mro[1][d].defines
        /\ st \notin mro[1][e].defines
        /\ mro[1][e].defines # {}

\* C3: a bindPort for a port that is already bound is rejected: no step
\* replaces or removes the inbound entry of a bound port.
C3_RebindRejected ==
    [][\A i \in Instances : _inboundPortTable_[i] \subseteq _inboundPortTable_'[i]]_vars

BoundPorts(i) == DictKeys(_inboundPortTable_[i])
IsBindStep == lastBind'.seq # lastBind.seq

\* C4: a bindPort on one node writes port, flag and templates only on the two
\* classes it derives: no class that existed before (the shared base handler
\* classes, the classes of other bindings) changes, the tables and handler
\* entries of every other node stay as they were, and every node still reads
\* from each of its outbound classes the port its own table holds for it.
C4_InstanceIsolation ==
    [][IsBindStep =>
        LET i == lastBind'.inst
        IN  /\ \A t \in 1..Len(types) : types'[t] = types[t]
            /\ lastBind'.outboundActionObjectClass > Len(types)
            /\ lastBind'.inboundActionObjectClass > Len(types)
            /\ \A j \in Instances \ {i} :
                /\ _outboundPortTable_'[j] = _outboundPortTable_[j]
                /\ _inboundPortTable_'[j] = _inboundPortTable_[j]
                /\ dict'[j] = dict[j]
            /\ \A j \in Instances : \A e \in _outboundPortTable_'[j] :
                GetAttr(types', e[1], "_port_") = e[2]
    ]_vars

\* Two nodes have bound the same supplied handler class to different ports.
C4_Witness ==
    \E e1 \in _outboundPortTable_[1], e2 \in _outboundPortTable_[2] :
        /\ types[e1[1]].base = statusRequest
        /\ types[e2[1]].base = statusRequest
        /\ e1[2] # e2[2]

StoredAs(given, stored) ==
    IF given = NoneTemplate THEN IsEmptyTemplate(stored) ELSE stored = given

\* C5: a bindPort(p, ...) for a port p that is not bound adds exactly the
\* entry <<outbound class, p>> to the outbound table and <<p, inbound class>>
\* to the inbound table and changes no other entry; both classes carry p and
\* the supplied templates, an omitted template being an empty one.
C5_BindNewPort ==
    [][(IsBindStep /\ lastBind'.port \notin BoundPorts(lastBind'.inst)) =>
        LET b == lastBind'
            i == b.inst
            out == b.outboundActionObjectClass
            inb == b.inboundActionObjectClass
        IN  /\ <<out, b.port>> \notin _outboundPortTable_[i]
            /\ _outboundPortTable_'[i] = _outboundPortTable_[i] \cup {<<out, b.port>>}
            /\ _inboundPortTable_'[i] = _inboundPortTable_[i] \cup {<<b.port, inb>>}
            /\ \A c \in {out, inb} :
                /\ GetAttr(types', c, "_port_") = b.port
                /\ StoredAs(b.outboundTemplate, GetAttr(types', c, "_outboundTemplate_"))
                /\ StoredAs(b.inboundTemplate, GetAttr(types', c, "_inboundTemplate_"))
    ]_vars

\* The second bindPort of a node bound a second port, with only the outbound
\* handler and the inbound template supplied.
C5_Witness ==
    /\ lastBind.seq = 2
    /\ Cardinality(_inboundPortTable_[lastBind.inst]) = 2
    /\ lastBind.outboundFunction = statusRequest
    /\ lastBind.outboundTemplate = NoneTemplate
    /\ lastBind.inboundFunction = None
    /\ lastBind.inboundTemplate = callerInboundTemplate

\* C6: no bindPort call fails, whichever arguments are omitted; an omitted
\* outbound handler becomes a class derived from the blocking generic
\* outbound class, an omitted inbound handler a class derived from the
\* generic inbound class, an omitted template an empty template.
C6_DefaultsForOmitted ==
    lastBind.seq > 0 =>
        LET out == lastBind.outboundActionObjectClass
            inb == lastBind.inboundActionObjectClass
        IN  /\ lastBind.exc = "none"
            /\ caught[lastBind.inst] = "none"
            /\ <<out, lastBind.port>> \in _outboundPortTable_[lastBind.inst]
            /\ <<lastBind.port, inb>> \in _inboundPortTable_[lastBind.inst]
            /\ lastBind.outboundFunction = None =>
                /\ out # genericOutboundActionObjectBlockOnReply
                /\ types[out].base = genericOutboundActionObjectBlockOnReply
            /\ lastBind.inboundFunction = None =>
                /\ inb # genericInboundActionObject
                /\ types[inb].base = genericInboundActionObject
            /\ lastBind.outboundTemplate = NoneTemplate =>
                \A c \in {out, inb} : IsEmptyTemplate(GetAttr(types, c, "_outboundTemplate_"))
            /\ lastBind.inboundTemplate = NoneTemplate =>
                \A c \in {out, inb} : IsEmptyTemplate(GetAttr(types, c, "_inboundTemplate_"))

\* A bindPort with both handlers and both templates omitted has returned.
C6_Witness ==
    /\ lastBind.seq > 0
    /\ lastBind.outboundFunction = None
    /\ lastBind.inboundFunction = None
    /\ lastBind.outboundTemplate = NoneTemplate
    /\ lastBind.inboundTemplate = NoneTemplate

\* C7: every port has at most one outbound class mapped to it in the
\* outbound table and at most one inbound class in the inbound table.
C7_OneHandlerPerPort ==
    \A i \in Instances : \A p \in PortChoices :
        /\ Cardinality({e \in _outboundPortTable_[i] : e[2] = p}) <= 1
        /\ Cardinality({e \in _inboundPortTable_[i] : e[1] = p}) <= 1

\* C8: when a contribution raises, the caller of _init_ receives that same
\* exception, the tables keep every outbound entry and every bound port they
\* held (nothing is rolled back), and no contribution runs afterwards.
C8_FailurePropagates ==
    [][\A i \in Instances :
        /\ (status[i] # "failed" /\ status'[i] = "failed") =>
            /\ raised'[i] # "none"
            /\ caught'[i] = raised'[i]
            /\ _outboundPortTable_[i] \subseteq _outboundPortTable_'[i]
            /\ BoundPorts(i) \subseteq DictKeys(_inboundPortTable_'[i])
            /\ Len(log'[i]) = Len(log[i]) + 1
        /\ status[i] = "failed" =>
            /\ status'[i] = "failed"
            /\ log'[i] = log[i]
            /\ _outboundPortTable_'[i] = _outboundPortTable_[i]
            /\ _inboundPortTable_'[i] = _inboundPortTable_[i]
    ]_vars

\* A contribution of a derived level raised after a more-base level had
\* bound a port: the binding is in the tables of the failed node, and
\* contributions the class chain defines have not run.
C8_Witness ==
    /\ status[1] = "failed"
    /\ caught[1] = "UserError"
    /\ _outboundPortTable_[1] # {}
    /\ Cardinality(LogLevels(1)) >= 2
    /\ LogRan(1) # Defined(mro[1])

\* C9: once the initPorts stage of a node's initialization has completed and
\* _init_ has returned, no step changes either of its tables.
C9_TablesFrozenAfterInit ==
    [][\A i \in Instances :
        (status[i] = "initialized" /\ \E k \in 1..Len(log[i]) : log[i][k].stage = "initPorts") =>
            /\ _outboundPortTable_'[i] = _outboundPortTable_[i]
            /\ _inboundPortTable_'[i] = _inboundPortTable_[i]
    ]_vars

\* C10: a call of a generated blocking outbound class has returned only if
\* the inbound class bound to the call's port on the call's node has signalled
\* the flag of the call's class; a signal for another port does not count.
C10_ReturnsOnlyOnOwnReply ==
    \A k \in 1..Len(calls) :
        calls[k].state = "returned" =>
            <<calls[k].inst, GetAttr(types, calls[k].cls, "_port_"),
              GetAttr(types, calls[k].cls, "_inboundPacketFlag_")>> \in signals

\* A call on one port has returned while a call on another port of the same
\* node, whose reply has not been dispatched, is still waiting.
C10_Witness ==
    \E k, l \in 1..Len(calls) :
        /\ calls[k].state = "returned"
        /\ calls[l].state = "waiting"
        /\ calls[k].inst = calls[l].inst
        /\ calls[k].port # calls[l].port

\* The flag of call k's class has been signalled / the reply to call k's own
\* request has been handed to the inbound class.
Signalled(k) == \E g \in signals : g[3] = FlagOf(calls[k].cls)
OwnReplyDispatched(k) == <<calls[k].inst, calls[k].port, k>> \notin (wire \cup inbox)

\* C11: a call whose flag is signalled before the call begins to wait still
\* returns: once such a call waits, the signal is observed.
C11_NoMissedWakeup ==
    \A k \in 1..MaxCalls :
        (k <= Len(calls) /\ calls[k].state = "transmitted" /\ Signalled(k))
            ~> (k <= Len(calls) /\ calls[k].state = "returned")

\* The only call made on a binding has returned, and the reply had been
\* signalled before that call began to wait.
C11_Witness ==
    \E k \in 1..Len(calls) :
        /\ calls[k].state = "returned"
        /\ calls[k].early
        /\ \A l \in 1..Len(calls) : l # k => calls[l].cls # calls[k].cls

\* C12: a call returns only after the reply to its own request has been
\* dispatched: it never returns on a flag an earlier exchange left set.
C12_ReturnsOnOwnExchange ==
    \A k \in 1..Len(calls) :
        calls[k].state = "returned" => OwnReplyDispatched(k)

\* The payload layout of a template: kind and width of its fields, in order.
Layout(t) == [k \in 1..Len(t.tokens) |-> <<t.tokens[k][1], t.tokens[k][3]>>]
\* The request and response layouts of the protocol catalog; width 0 is a
\* field of variable width.
CatalogPorts == {1, 2, 3, 4, 5, 6, 7, 255}
CatalogRequest(p) ==
    CASE p = 2 -> <<<<"unsignedInt", 1>>>>
      [] p = 3 -> <<<<"unsignedInt", 1>>, <<"unsignedInt", 2>>, <<"pList", 128>>>>
      [] p = 4 -> <<<<"unsignedInt", 2>>>>
      [] p = 6 -> <<<<"pList", 2>>>>
      [] OTHER -> <<>>
CatalogResponse(p) ==
    CASE p = 1 -> <<<<"pString", 1>>, <<"unsignedInt", 1>>>>
      [] p = 2 -> <<<<"unsignedInt", 1>>, <<"unsignedInt", 2>>>>
      [] p = 3 -> <<<<"unsignedInt", 1>>, <<"unsignedInt", 2>>>>
      [] p = 4 -> <<<<"pList", 128>>>>
      [] p = 5 -> <<<<"pString", 0>>>>
      [] p = 6 -> <<<<"pString", 0>>>>
      [] OTHER -> <<>>
IsStandardNode(i) == Len(mro[i]) > 0 /\ mro[i][1].name = "gestaltNode"

C14_InitReceivesArgs ==
    \A i \in Instances :
        /\ \A k \in 1..Len(initSeen[i]) :
            /\ initSeen[i][k][2] = _initArgs_[i]
            /\ initSeen[i][k][3] = _initKwargs_[i]
        /\ raised[i] # "TypeError"

\* C15: every port the tables of a node record lies in 1..254 or is the
\* reserved port 255.
C15_PortsInRange ==
    \A i \in Instances :
        /\ \A e \in _outboundPortTable_[i] : e[2] \in 1..255
        /\ \A e \in _inboundPortTable_[i] : e[1] \in 1..255

\* C16: the base recorded on each of the two classes a bindPort call
\* produced is the class it was derived from: the supplied handler class,
\* or the generic blocking outbound / generic inbound class when the handler
\* was omitted.
C16_BaseRecorded ==
    lastBind.seq > 0 =>
        LET out == lastBind.outboundActionObjectClass
            inb == lastBind.inboundActionObjectClass
        IN  /\ GetAttr(types, out, "_baseActionObject_") = types[out].base
            /\ GetAttr(types, inb, "_baseActionObject_") = types[inb].base
            /\ types[out].base = IF lastBind.outboundFunction # None
                                  THEN lastBind.outboundFunction
                                  ELSE genericOutboundActionObjectBlockOnReply
            /\ types[inb].base = IF lastBind.inboundFunction # None
                                  THEN lastBind.inboundFunction
                                  ELSE genericInboundActionObject

\* The contribution <<cls, stage>> was run before position b of the log.
RanBefore(i, cls, stage, b) ==
    \E a \in 1..(b - 1) : log[i][a].cls = cls /\ log[i][a].stage = stage

\* C17: when the initPorts or onLoad contribution of a level runs, every
\* init, initPackets and initPorts contribution of the more-base levels and
\* the init and initPackets contributions of the same level have run: the
\* ports gestaltNode binds are in the tables of a more-derived level, and
\* gestaltNode's own initPorts finds the page size and the packet templates.
C17_BaseReadyBeforePorts ==
    \A i \in Instances : \A b \in 1..Len(log[i]) :
        log[i][b].stage \in {"initPorts", "onLoad"} =>
            LET m == mro[i]
                d == DepthOf(m, log[i][b].level) + 1
            IN  /\ \A e \in (d + 1)..Len(m) :
                    \A st \in m[e].defines \cap {"init", "initPackets", "initPorts"} :
                        RanBefore(i, m[e].name, st, b)
                /\ \A st \in m[d].defines \cap {"init", "initPackets"} :
                        RanBefore(i, m[d].name, st, b)
                /\ (\E e \in d..Len(m) : m[e].name = "gestaltNode") =>
                        /\ bootPageSize[i] = {128}
                        /\ Cardinality(packetAttrs[i]) = 10
                /\ (\E e \in (d + 1)..Len(m) : m[e].name = "gestaltNode") =>
                        CatalogPorts \subseteq DictKeys(_inboundPortTable_[i])

\* _init_ has returned for a class chain in which a user level above
\* gestaltNode ran its own initPorts and onLoad after gestaltNode's ports
\* were bound.
C17_Witness ==
    /\ status[1] = "initialized"
    /\ \E e \in 1..Len(mro[1]) : mro[1][e].name = "gestaltNode"
    /\ \E a, b \in 1..Len(log[1]) :
        /\ IsUserClass([name |-> log[1][a].cls]) /\ log[1][a].stage = "initPorts"
        /\ log[1][b].cls = log[1][a].cls /\ log[1][b].stage = "onLoad"
    /\ CatalogPorts \subseteq DictKeys(_inboundPortTable_[1])

\* The steps left to a running _init_ on the way down to the root and back
\* up through the dispatch statements of each level.
Remaining(i) ==
    IF pc[i] = "recurse" THEN 5 * Len(mro[i]) + (Len(mro[i]) - depth[i])
    ELSE 5 * depth[i] + (5 - StageRank(pc[i]))
\* The running _init_ of node i has a next step.
CanStep(i) ==
    \/ pc[i] = "recurse" /\ depth[i] + 1 <= Len(mro[i])
                         /\ mro[i][depth[i] + 1].recursiveInit \in {"recursive", "dummy"}
    \/ pc[i] \in Stages

\* C18: the recursion _init_ starts terminates: a running _init_ always has
\* a next step and every step brings it nearer to its end; it descends one
\* level at a time, never past baseVirtualNode, and never descends again
\* once it has begun to return; no contribution runs at baseVirtualNode or
\* below; and _init_ ends without returning only when a contribution raised.
C18_RecursionTerminates ==
    /\ [](\A i \in Instances :
            /\ status[i] = "initializing" =>
                    /\ CanStep(i)
                    /\ Remaining(i) >= 0
                    /\ depth[i] <= DepthOf(mro[i], "baseVirtualNode")
            /\ \A k \in 1..Len(log[i]) :
                    log[i][k].level \notin {"baseVirtualNode", "object"}
            /\ status[i] = "failed" => raised[i] # "none")
    /\ [][\A i \in Instances :
            (status[i] = "initializing" /\ status'[i] = "initializing") =>
                /\ <<depth'[i], pc'[i]>> # <<depth[i], pc[i]>> => Remaining(i)' < Remaining(i)
                /\ depth'[i] > depth[i] => (pc[i] = "recurse" /\ depth'[i] = depth[i] + 1)
                /\ pc[i] # "recurse" => (pc'[i] # "recurse" /\ depth'[i] <= depth[i])]_vars

\* _init_ has returned for a chain of two user levels above gestaltNode and
\* baseGestaltNode, no contribution having raised.
C18_Witness ==
    /\ status[1] = "initialized"
    /\ raised[1] = "none"
    /\ Len(mro[1]) = 6
    /\ Cardinality(LogLevels(1)) = 4

\* The classes of heap ty on which flag f is stored.
HoldersIn(ty, f) ==
    {t \in 1..Len(ty) : "_inboundPacketFlag_" \in ty[t].has /\ ty[t]._inboundPacketFlag_ = f}
Holders(f) == HoldersIn(types, f)

\* C19: every bindPort call creates one new flag; a flag is held by exactly
\* two classes, the outbound and the inbound class of one binding, which
\* carry the same port and the same two templates; classes of different
\* bindings hold different flags.
C19_FlagPerBinding ==
    /\ [](\A f \in 1..Len(flags) :
            /\ Cardinality(Holders(f)) = 2
            /\ \A t, u \in Holders(f) :
                /\ {"_port_", "_outboundTemplate_", "_inboundTemplate_"} \subseteq types[t].has
                /\ types[t]._port_ = types[u]._port_
                /\ types[t]._outboundTemplate_ = types[u]._outboundTemplate_
                /\ types[t]._inboundTemplate_ = types[u]._inboundTemplate_)
    /\ [][IsBindStep =>
            /\ Len(flags') = Len(flags) + 1
            /\ lastBind'.inboundPacketFlag = Len(flags')
            /\ HoldersIn(types', lastBind'.inboundPacketFlag) =
                    {lastBind'.outboundActionObjectClass, lastBind'.inboundActionObjectClass}
            /\ lastBind'.outboundActionObjectClass # lastBind'.inboundActionObjectClass]_vars

\* Both nodes hold a binding, for different ports; two flags exist.
C19_Witness ==
    /\ Len(flags) = 2
    /\ _inboundPortTable_[1] # {} /\ _inboundPortTable_[2] # {}
    /\ DictKeys(_inboundPortTable_[1]) # DictKeys(_inboundPortTable_[2])

\* C20: for every binding in the tables of a node, the instance attribute
\* named after the binding's handler class resolves to a class of the
\* tables that carries the binding's port: each bound outbound handler stays
\* reachable by its name and transmits on its own port.
C20_NamedHandlerResolves ==
    \A i \in Instances :
        /\ \A e \in _outboundPortTable_[i] :
            LET n == types[e[1]].name
            IN  /\ n \in DictKeys(dict[i])
                /\ DictGet(dict[i], n) \in DictKeys(_outboundPortTable_[i])
                /\ GetAttr(types, DictGet(dict[i], n), "_port_") = e[2]
        /\ \A e \in _inboundPortTable_[i] :
            LET n == types[e[2]].name
            IN  /\ n \in DictKeys(dict[i])
                /\ DictGet(dict[i], n) \in {x[2] : x \in _inboundPortTable_[i]}
                /\ GetAttr(types, DictGet(dict[i], n), "_port_") = e[1]

====
